---- MODULE Spec2Model ----
(***************************************************************************)
(* Weekly Supertrend regime checker (src/backtest.py).                     *)
(*                                                                         *)
(* Two state machines share this module:                                   *)
(*   SpecIndicator  the pure functions atr and supertrend applied to a bar *)
(*                  series drawn from a bounded set;                       *)
(*   Spec           main / analyze_all run over a market data set, again   *)
(*                  and again (the script is run weekly).                  *)
(*                                                                         *)
(* Prices are integers.  Every derived quantity (hl2, ATR, bands) is an    *)
(* exact rational kept as an integer multiple of 1/Scale, so a price p is  *)
(* the number p * Scale.  A bar is [High, Low, Close]: atr, supertrend and *)
(* analyze_all never read Open or Volume.                                  *)
(***************************************************************************)
EXTENDS Integers, Sequences, FiniteSets, TLC

VARIABLES
    \* ---- SpecIndicator: one call of supertrend(df, period)
    ind_pc,          \* "input" | "atr" | "done" | "off"
    ind_df,          \* the bar series passed in
    ind_period,      \* the lookback period passed in
    atr_series,      \* line 79: atr(df, period), <<>> before it is computed
    st_table,        \* the rows the loop of lines 89-117 wrote, <<>> before
    \* ---- Spec: main / analyze_all
    pc,              \* "idle" | "equity" | "gold" | "liquid" | "output" | "off"
    market,          \* what yf.download does for each ticker: raise, or rows
    now,             \* the last reading of the wall clock
    idx,             \* position of the running for loop in its ticker list
    nifty_is_green,  \* analyze_all's local
    report,          \* analyze_all's local dict
    exit_code,       \* exit status of the last finished run of main, -1 before any
    prev_run         \* the previous finished run: its data and what it printed

ind_vars == <<ind_pc, ind_df, ind_period, atr_series, st_table>>
main_vars == <<pc, market, now, idx, nifty_is_green, report, exit_code, prev_run>>
vars == <<ind_pc, ind_df, ind_period, atr_series, st_table,
          pc, market, now, idx, nifty_is_green, report, exit_code, prev_run>>

\* ------------------------------------------------------------------ bounds
MaxBars == 3
MaxPrice == 2
MaxPeriod == 3
MaxClock == 2
MaxEquity == 2

\* --------------------------------------------------------- configuration
SUPER_PERIOD == 10
\* SUPER_MULT = 2.5 = SuperMultNum / SuperMultDen
SuperMultNum == 5
SuperMultDen == 2

\* ------------------------------------------------------------- arithmetic
Abs(x) == IF x < 0 THEN -x ELSE x
Max2(a, b) == IF a >= b THEN a ELSE b
Min2(a, b) == IF a <= b THEN a ELSE b

RECURSIVE Gcd(_, _)
Gcd(a, b) == IF b = 0 THEN a ELSE Gcd(b, a % b)

RECURSIVE LcmUpTo(_)
LcmUpTo(n) == IF n <= 1 THEN 1 ELSE (LcmUpTo(n - 1) * n) \div Gcd(LcmUpTo(n - 1), n)

\* A rolling mean over at most MaxBars samples, times 5/2, plus a half
\* integer: every value is a multiple of 1 / (2 * lcm(1..MaxBars)).
Scale == 2 * LcmUpTo(MaxBars)

\* ------------------------------------------------------------------- bars
Prices == 1..MaxPrice
Bars == {b \in [High : Prices, Low : Prices, Close : Prices] :
            b.Low <= b.Close /\ b.Close <= b.High}
Flat(p) == [High |-> p, Low |-> p, Close |-> p]
SeriesUpTo(n) == UNION {[1..k -> Bars] : k \in 1..n}

\* -------------------------------------------------------------------- atr
\* The missing previous close of the first bar read as 0 (a fillna(0)).
TrueRangeZeroFill(df, i) ==
    LET prev_close == IF i = 1 THEN 0 ELSE df[i - 1].Close
    IN Max2(df[i].High - df[i].Low,
            Max2(Abs(df[i].High - prev_close), Abs(df[i].Low - prev_close)))

\* tr = max(high - low, |high - close.shift(1)|, |low - close.shift(1)|);
\* on the first bar close.shift(1) is NaN and max(axis=1) skips NaN.
TrueRange(df, i) ==
    IF i = 1 THEN df[i].High - df[i].Low
    ELSE Max2(df[i].High - df[i].Low,
              Max2(Abs(df[i].High - df[i - 1].Close),
                   Abs(df[i].Low - df[i - 1].Close)))

RECURSIVE SumTR(_, _, _)
SumTR(df, lo, hi) == IF lo > hi THEN 0 ELSE TrueRange(df, hi) + SumTR(df, lo, hi - 1)

\* A centred window: reads the bar after i.
RollingMeanCentred(df, period, i) ==
    LET lo == Max2(1, i - period + 1)
        hi == Min2(Len(df), i + 1)
    IN (Scale * SumTR(df, lo, hi)) \div (hi - lo + 1)

\* tr.rolling(period, min_periods=1).mean() at bar i, times Scale.
RollingMean(df, period, i) ==
    LET lo == Max2(1, i - period + 1)
    IN (Scale * SumTR(df, lo, i)) \div (i - lo + 1)

atr(df, period) == [i \in 1..Len(df) |-> RollingMean(df, period, i)]

\* ------------------------------------------------------------- supertrend
hl2(df, i) == (Scale * (df[i].High + df[i].Low)) \div 2
BandWidth(a) == (SuperMultNum * a) \div SuperMultDen
basic_upperband(df, atrs, i) == hl2(df, i) + BandWidth(atrs[i])
basic_lowerband(df, atrs, i) == hl2(df, i) - BandWidth(atrs[i])

FinalUpperNoClose(bu, prev_fu, prev_close) == IF bu < prev_fu THEN bu ELSE prev_fu

FinalUpper(bu, prev_fu, prev_close) ==
    IF bu < prev_fu \/ prev_close > prev_fu THEN bu ELSE prev_fu

FinalLower(bl, prev_fl, prev_close) ==
    IF bl > prev_fl \/ prev_close < prev_fl THEN bl ELSE prev_fl

\* The textbook rule: leave bullish only below the lower band.
TrendTextbook(prev_st, close, fu, fl) ==
    IF prev_st /\ close < fl THEN FALSE
    ELSE IF ~prev_st /\ close > fu THEN TRUE
    ELSE prev_st

Trend(prev_st, close, fu, fl) ==
    IF prev_st /\ close <= fu THEN FALSE
    ELSE IF ~prev_st /\ close >= fl THEN TRUE
    ELSE prev_st

StValueSwapped(st, fu, fl) == IF st THEN fu ELSE fl

StValue(st, fu, fl) == IF st THEN fl ELSE fu

\* The row the loop writes at bar i (1-based), given the row at i - 1.
Row(df, atrs, i, prev) ==
    LET close == Scale * df[i].Close
        bu == basic_upperband(df, atrs, i)
        bl == basic_lowerband(df, atrs, i)
    IN IF i = 1
       THEN [Close |-> close, ST_bool |-> TRUE, ST_value |-> bl, ATR |-> atrs[i],
             final_upperband |-> bu, final_lowerband |-> bl]
       ELSE LET pc_ == Scale * df[i - 1].Close
                fu == FinalUpper(bu, prev.final_upperband, pc_)
                fl == FinalLower(bl, prev.final_lowerband, pc_)
                st == Trend(prev.ST_bool, close, fu, fl)
            IN [Close |-> close, ST_bool |-> st, ST_value |-> StValue(st, fu, fl),
                ATR |-> atrs[i], final_upperband |-> fu, final_lowerband |-> fl]

RECURSIVE SupertrendLoop(_, _, _, _)
SupertrendLoop(df, atrs, i, acc) ==
    IF i > Len(df) THEN acc
    ELSE SupertrendLoop(df, atrs, i + 1,
                        Append(acc, Row(df, atrs, i,
                                        IF i = 1 THEN <<>> ELSE acc[i - 1])))

supertrend(df, period) == SupertrendLoop(df, atr(df, period), 1, <<>>)

\* ----------------------------------------------------------- SpecIndicator
NoReport == [status |-> "none"]
NoRun == [status |-> "none"]

IndicatorOff ==
    /\ ind_pc = "off" /\ ind_df = <<>> /\ ind_period = 0
    /\ atr_series = <<>> /\ st_table = <<>>

MainOff ==
    /\ pc = "off" /\ market = <<>> /\ now = 0 /\ idx = 0
    /\ nifty_is_green = FALSE /\ report = NoReport /\ exit_code = -1
    /\ prev_run = NoRun

InitIndicator ==
    /\ ind_pc = "input"
    /\ ind_df \in SeriesUpTo(MaxBars)
    /\ ind_period \in 1..MaxPeriod
    /\ atr_series = <<>>
    /\ st_table = <<>>
    /\ MainOff

\* supertrend, lines 78-82: the vectorised part.
SupertrendAtr ==
    /\ ind_pc = "input"
    /\ atr_series' = atr(ind_df, ind_period)
    /\ ind_pc' = "atr"
    /\ UNCHANGED <<ind_df, ind_period, st_table>>
    /\ UNCHANGED main_vars

\* supertrend, lines 84-121: the loop over the bars and the return.
SupertrendBands ==
    /\ ind_pc = "atr"
    /\ st_table' = SupertrendLoop(ind_df, atr_series, 1, <<>>)
    /\ ind_pc' = "done"
    /\ UNCHANGED <<ind_df, ind_period, atr_series>>
    /\ UNCHANGED main_vars

NextIndicator == SupertrendAtr \/ SupertrendBands

SpecIndicator == InitIndicator /\ [][NextIndicator]_vars

\* ------------------------------------------------------ main / analyze_all
\* The defaults of lines 33-36 and the lists parsed from them (44-45).
NIFTY_TICKER == "^NSEI"
EQUITY_ETFS == <<"NIFTYBEES.NS", "MOMENTUM.NS", "MON100.NS", "HDFCSML250.NS", "MID150BEES.NS">>
GOLD_SILVER == <<"GOLDBEES.NS", "SILVERBEES.NS">>
LIQUID_TICKER == "LIQUIDBEES.NS"

\* main's lists, lines 281-284.  The model runs main with the environment
\* variable EQUITY_ETFS naming the first MaxEquity default tickers, and with
\* GOLD_SILVER left at its default.
equity_list == SubSeq(EQUITY_ETFS, 1, Min2(MaxEquity, Len(EQUITY_ETFS)))
gold_silver_list == GOLD_SILVER

Range(f) == {f[x] : x \in DOMAIN f}
ListedTickers == Range(equity_list) \cup Range(gold_silver_list)

\* What yf.download does for a ticker: it raises (msg is str(e) of the
\* exception, which may be the empty string), or it returns rows, each a
\* date with its bar, in the order the source delivers them; no rows is the
\* empty frame.
Raises(msg) == [raised |-> TRUE, msg |-> msg, rows |-> <<>>]
Delivers(rows) == [raised |-> FALSE, msg |-> "", rows |-> rows]
RowAt(date, bar) ==
    [Date |-> date, High |-> bar.High, Low |-> bar.Low, Close |-> bar.Close]
\* The weekly bars of a series, oldest first.
Weekly(series) == Delivers([i \in 1..Len(series) |-> RowAt(i, series[i])])
\* The same rows, newest first.
NewestFirst(series) ==
    Delivers([i \in 1..Len(series) |->
                 RowAt(Len(series) + 1 - i, series[Len(series) + 1 - i])])

\* The frames a listed ticker can get.  By the last two Supertrend states
\* the series are: one bar (green, and no previous bar, so green before),
\* green-red, red-green and, delivered newest first, red-red.
Feed == { Delivers(<<>>),
          Weekly(<<Flat(1)>>),
          Weekly(<<Flat(1), Flat(1)>>),
          Weekly(<<Flat(1), Flat(1), Flat(1)>>),
          NewestFirst(<<Flat(2), Flat(2), Flat(1)>>) }
\* The tickers whose download can also raise: the first of each list, so
\* that each of the two except branches gets an exception of the download.
RaisingTickers == {equity_list[1], gold_silver_list[1]}
\* The exception a listed ticker's download raises: one whose str is empty.
FeedOf(t) == IF t \in RaisingTickers THEN Feed \cup {Raises("")} ELSE Feed
\* The downloads the benchmark can get: an exception with a message, one
\* without, the empty frame, a green series, and a red one delivered newest
\* first.
BenchmarkFeed == { Raises("ConnectionError"),
                   Raises(""),
                   Delivers(<<>>),
                   Weekly(<<Flat(1), Flat(2)>>),
                   NewestFirst(<<Flat(2), Flat(1)>>) }

\* df.sort_index(), line 56: the rows by ascending date (dates are distinct).
RECURSIVE sort_index(_)
sort_index(rows) ==
    IF rows = <<>> THEN <<>>
    ELSE LET k == CHOOSE i \in 1..Len(rows) :
                    \A j \in 1..Len(rows) : rows[i].Date <= rows[j].Date
         IN <<rows[k]>> \o
            sort_index([j \in 1..(Len(rows) - 1) |->
                           IF j < k THEN rows[j] ELSE rows[j + 1]])

\* fetch_weekly: the download's exception passes through; an empty frame
\* raises RuntimeError; else the frame sorted by date.
fetch_weekly(source, ticker) ==
    LET got == source[ticker]
    IN IF got.raised THEN [raised |-> TRUE, msg |-> got.msg]
       ELSE IF got.rows = <<>>
       THEN [raised |-> TRUE, msg |-> "No data for ticker: " \o ticker]
       ELSE [raised |-> FALSE, df |-> sort_index(got.rows)]

Last(s) == s[Len(s)]
\* prev = st.iloc[-2] if len(st) >= 2 else last
Prev(s) == IF Len(s) >= 2 THEN s[Len(s) - 1] ELSE Last(s)

Entry(st) ==
    [last_close |-> Last(st).Close,
     st_is_green |-> Last(st).ST_bool,
     st_prev_green |-> Prev(st).ST_bool,
     st_value |-> Last(st).ST_value]

\* Follows the ETF's own Supertrend whatever the benchmark says.
EquityActionOwnOnly(nifty_green, is_green, was_green) ==
    IF is_green /\ ~was_green
    THEN [action |-> "BUY", reason |-> "ETF weekly Supertrend turned GREEN and NIFTY is GREEN."]
    ELSE IF ~is_green /\ was_green
    THEN [action |-> "SELL", reason |-> "ETF weekly Supertrend turned RED while NIFTY is GREEN."]
    ELSE [action |-> "HOLD", reason |-> "No change in ETF weekly Supertrend."]

\* Lines 176-203.
EquityAction(nifty_green, is_green, was_green) ==
    IF ~nifty_green
    THEN [action |-> "SELL",
          reason |-> "NIFTY weekly Supertrend is RED - per master rule exit equity ETFs and park in LIQUIDBEES."]
    ELSE IF is_green /\ ~was_green
    THEN [action |-> "BUY", reason |-> "ETF weekly Supertrend turned GREEN and NIFTY is GREEN."]
    ELSE IF ~is_green /\ was_green
    THEN [action |-> "SELL", reason |-> "ETF weekly Supertrend turned RED while NIFTY is GREEN."]
    ELSE [action |-> "HOLD", reason |-> "No change in ETF weekly Supertrend."]

\* Gold and silver put under the master rule too.
GoldActionUnderNifty(is_green, was_green) ==
    IF ~nifty_is_green
    THEN [action |-> "SELL", reason |-> "NIFTY weekly Supertrend is RED."]
    ELSE IF is_green /\ ~was_green
    THEN [action |-> "BUY", reason |-> "Gold/Silver weekly Supertrend turned GREEN (independent of NIFTY)."]
    ELSE IF ~is_green /\ was_green
    THEN [action |-> "SELL", reason |-> "Gold/Silver weekly Supertrend turned RED (independent of NIFTY)."]
    ELSE [action |-> "HOLD", reason |-> "No change in weekly Supertrend for Gold/Silver."]

\* Lines 227-244.
GoldAction(is_green, was_green) ==
    IF is_green /\ ~was_green
    THEN [action |-> "BUY", reason |-> "Gold/Silver weekly Supertrend turned GREEN (independent of NIFTY)."]
    ELSE IF ~is_green /\ was_green
    THEN [action |-> "SELL", reason |-> "Gold/Silver weekly Supertrend turned RED (independent of NIFTY)."]
    ELSE [action |-> "HOLD", reason |-> "No change in weekly Supertrend for Gold/Silver."]

ActionEntry(t, a) == [ticker |-> t, action |-> a.action, reason |-> a.reason]

\* The except branch that records the error and forgets the action entry.
RecordErrorNoAction(rep, section, t, msg) ==
    [rep EXCEPT ![section] = (t :> [error |-> msg]) @@ @]

\* The except branches, lines 204-210 and 245-251.
RecordError(rep, section, t, msg) ==
    [rep EXCEPT ![section] = (t :> [error |-> msg]) @@ @,
                !.action_summary = Append(@, [ticker |-> t, action |-> "ERROR", reason |-> msg])]

\* A successful pass through a try body: the entry, then one action.
RecordEntry(rep, section, t, st, a) ==
    [rep EXCEPT ![section] = (t :> Entry(st)) @@ @,
                !.action_summary = Append(@, ActionEntry(t, a))]

\* The MARKET_RED note appended whatever the benchmark's state.
RegimeNoteAlways(green) ==
    << [action |-> "MARKET_RED",
        note |-> "NIFTY Weekly Supertrend is RED. Move equity allocations to LIQUIDBEES only (per your rule)."] >>

\* Lines 153-158.
RegimeNote(green) ==
    IF green THEN <<>>
    ELSE << [action |-> "MARKET_RED",
             note |-> "NIFTY Weekly Supertrend is RED. Move equity allocations to LIQUIDBEES only (per your rule)."] >>

\* Lines 255-266.
LiquidAction(green) ==
    IF ~green
    THEN [action |-> "PARK",
          reason |-> "NIFTY red -> move equity allocations to LiquidBees per system rule."]
    ELSE [action |-> "STANDBY",
          reason |-> "NIFTY green -> LiquidBees used only for leftover cash, not main allocation."]

EmptyDict == [t \in {} |-> 0]

Init ==
    /\ pc = "idle"
    /\ market \in [ListedTickers \cup {NIFTY_TICKER} -> Feed \cup {Raises("")}]
    /\ \A t \in ListedTickers : market[t] \in FeedOf(t)
    /\ market[NIFTY_TICKER] = Delivers(<<>>)
    /\ now = 0
    /\ idx = 0
    /\ nifty_is_green = FALSE
    /\ report = NoReport
    /\ exit_code = -1
    /\ prev_run = NoRun
    /\ IndicatorOff

\* main, lines 280-292, into analyze_all, lines 125-158: read the clock
\* (it has moved on since the last run), fetch the benchmark series the data
\* source gives this week; raise out of analyze_all and exit 2 when the fetch
\* fails.  The listed tickers' downloads stay as they are from run to run.
MainStart ==
    /\ pc = "idle"
    /\ now < MaxClock
    /\ \E ts \in (now + 1)..MaxClock, bench \in BenchmarkFeed :
        /\ now' = ts
        /\ market' = [market EXCEPT ![NIFTY_TICKER] = bench]
        /\ LET got == fetch_weekly([market EXCEPT ![NIFTY_TICKER] = bench], NIFTY_TICKER)
           IN IF got.raised
              THEN /\ exit_code' = 2
                   /\ prev_run' = [status |-> "aborted", data |-> market',
                                   stderr |-> "ERROR during analysis: Failed to fetch NIFTY data: " \o got.msg]
                   /\ UNCHANGED <<pc, idx, nifty_is_green, report>>
              ELSE LET st_nifty == supertrend(got.df, SUPER_PERIOD)
                       green == Last(st_nifty).ST_bool
                   IN /\ nifty_is_green' = green
                      /\ report' = [timestamp_utc |-> ts,
                                    nifty_ticker |-> NIFTY_TICKER,
                                    equity_tickers |-> equity_list,
                                    gold_silver_tickers |-> gold_silver_list,
                                    liquid_ticker |-> LIQUID_TICKER,
                                    nifty |-> [last_close |-> Last(st_nifty).Close,
                                               st_is_green |-> green,
                                               st_value |-> Last(st_nifty).ST_value],
                                    etfs |-> EmptyDict,
                                    gold_silver |-> EmptyDict,
                                    action_summary |-> RegimeNote(green)]
                      /\ pc' = "equity"
                      /\ idx' = 1
                      /\ UNCHANGED <<exit_code, prev_run>>
    /\ UNCHANGED ind_vars

\* One pass of the loop of lines 161-210.
EquityStep ==
    /\ pc = "equity"
    /\ LET t == equity_list[idx]
           got == fetch_weekly(market, t)
       IN report' =
            IF got.raised THEN RecordError(report, "etfs", t, got.msg)
            ELSE LET st == supertrend(got.df, SUPER_PERIOD)
                 IN RecordEntry(report, "etfs", t, st,
                                EquityAction(nifty_is_green, Last(st).ST_bool, Prev(st).ST_bool))
    /\ IF idx < Len(equity_list)
       THEN idx' = idx + 1 /\ pc' = pc
       ELSE idx' = 1 /\ pc' = "gold"
    /\ UNCHANGED <<market, now, nifty_is_green, exit_code, prev_run>>
    /\ UNCHANGED ind_vars

\* One pass of the loop of lines 213-251.
GoldStep ==
    /\ pc = "gold"
    /\ LET t == gold_silver_list[idx]
           got == fetch_weekly(market, t)
       IN report' =
            IF got.raised THEN RecordError(report, "gold_silver", t, got.msg)
            ELSE LET st == supertrend(got.df, SUPER_PERIOD)
                 IN RecordEntry(report, "gold_silver", t, st,
                                GoldAction(Last(st).ST_bool, Prev(st).ST_bool))
    /\ IF idx < Len(gold_silver_list)
       THEN idx' = idx + 1 /\ pc' = pc
       ELSE idx' = 0 /\ pc' = "liquid"
    /\ UNCHANGED <<market, now, nifty_is_green, exit_code, prev_run>>
    /\ UNCHANGED ind_vars

\* Lines 253-268: the LiquidBees entry, and the return.
LiquidStep ==
    /\ pc = "liquid"
    /\ report' = [x \in DOMAIN report \cup {"liquidbees"} |->
                    IF x = "liquidbees" THEN [ticker |-> LIQUID_TICKER]
                    ELSE IF x = "action_summary"
                    THEN Append(report.action_summary,
                                ActionEntry(LIQUID_TICKER, LiquidAction(nifty_is_green)))
                    ELSE report[x]]
    /\ pc' = "output"
    /\ UNCHANGED <<market, now, idx, nifty_is_green, exit_code, prev_run>>
    /\ UNCHANGED ind_vars

\* main, lines 294-307: print and save the summary; the process ends with 0.
MainOutput ==
    /\ pc = "output"
    /\ prev_run' = [status |-> "done", data |-> market, summary |-> report]
    /\ exit_code' = 0
    /\ report' = NoReport
    /\ pc' = "idle"
    /\ UNCHANGED <<market, now, idx, nifty_is_green>>
    /\ UNCHANGED ind_vars

Next == MainStart \/ EquityStep \/ GoldStep \/ LiquidStep \/ MainOutput

Spec == Init /\ [][Next]_vars

\* ================================================== claims on the indicator
Computed == ind_pc = "done"
Px(i) == Scale * ind_df[i].Close
BarsFrom2 == 2..Len(st_table)

\* C3: flip correctness.  At every bar after the first, a bullish previous
\* state turns bearish exactly when close <= final upper band and otherwise
\* stays bullish; a bearish previous state turns bullish exactly when
\* close >= final lower band and otherwise stays bearish.
C3_FlipCorrectness ==
    Computed =>
      \A i \in BarsFrom2 :
        LET was == st_table[i - 1].ST_bool
            is == st_table[i].ST_bool
        IN /\ was => (~is <=> Px(i) <= st_table[i].final_upperband)
           /\ ~was => (is <=> Px(i) >= st_table[i].final_lowerband)

\* A series that flips to bearish at its second bar, a bar with a range,
\* and back to bullish at its third.
C3_Witness ==
    /\ Computed /\ Len(st_table) = 3
    /\ ind_df[2].High > ind_df[2].Low
    /\ ~st_table[2].ST_bool /\ Px(2) <= st_table[2].final_upperband
    /\ st_table[3].ST_bool /\ Px(3) >= st_table[3].final_lowerband

\* C4: causality.  Every row of the table computed on the whole series is
\* the row with the same index of the table computed on the prefix of the
\* series that ends at that bar.
C4_Causality ==
    Computed =>
      \A i \in 1..Len(ind_df) :
        st_table[i] = supertrend(SubSeq(ind_df, 1, i), ind_period)[i]

\* A series under a window that has begun to slide, in which each bar
\* after the first changes the true range: the rows before the last were
\* computed with later bars present that differ from them.
C4_Witness ==
    /\ Computed /\ Len(ind_df) = 3 /\ ind_period = 2
    /\ TrueRange(ind_df, 3) # TrueRange(ind_df, 2)
    /\ TrueRange(ind_df, 2) # TrueRange(ind_df, 1)
    /\ st_table[2] = supertrend(SubSeq(ind_df, 1, 2), ind_period)[2]

\* C6: recursive band finalisation.  After the first bar the final upper
\* band is the basic upper band when that is below the previous final upper
\* band or the previous close was above it, else the previous final upper
\* band; symmetrically for the lower band.  So the upper band rises only
\* after a close above it and the lower band falls only after a close
\* below it.
C6_BandFinalization ==
    Computed =>
      \A i \in BarsFrom2 :
        LET bu == basic_upperband(ind_df, atr_series, i)
            bl == basic_lowerband(ind_df, atr_series, i)
            pfu == st_table[i - 1].final_upperband
            pfl == st_table[i - 1].final_lowerband
            fu == st_table[i].final_upperband
            fl == st_table[i].final_lowerband
        IN /\ fu = (IF bu < pfu \/ Px(i - 1) > pfu THEN bu ELSE pfu)
           /\ fl = (IF bl > pfl \/ Px(i - 1) < pfl THEN bl ELSE pfl)
           /\ fu > pfu => Px(i - 1) > pfu
           /\ fl < pfl => Px(i - 1) < pfl

\* The upper band rises after a close above it, and in the same series the
\* lower band is carried forward although the basic lower band is below it.
C6_Witness ==
    /\ Computed
    /\ \E i \in BarsFrom2 :
         /\ st_table[i].final_upperband > st_table[i - 1].final_upperband
         /\ Px(i - 1) > st_table[i - 1].final_upperband
    /\ \E i \in BarsFrom2 :
         /\ st_table[i].final_lowerband = st_table[i - 1].final_lowerband
         /\ basic_lowerband(ind_df, atr_series, i) < st_table[i - 1].final_lowerband

ConstantSeries == \A i \in 1..Len(ind_df) : ind_df[i] = Flat(ind_df[1].Close)

\* C7: ATR non-negativity.  With high >= low at every bar, every ATR value
\* is >= 0; the first one is high - low of the first bar; the value at bar
\* i is the mean of the true ranges of the last min(i, N) bars; and on a
\* constant-price series every ATR value is 0.
C7_AtrNonNegative ==
    ind_pc \in {"atr", "done"} =>
      /\ Len(atr_series) = Len(ind_df)
      /\ \A i \in 1..Len(ind_df) :
           LET n == Min2(i, ind_period)
           IN /\ atr_series[i] >= 0
              /\ atr_series[i] * n = Scale * SumTR(ind_df, i - n + 1, i)
      /\ atr_series[1] = Scale * (ind_df[1].High - ind_df[1].Low)
      /\ ConstantSeries => \A i \in 1..Len(ind_df) : atr_series[i] = 0

\* A constant-price series longer than the window, at a price above zero.
C7_Witness ==
    /\ ind_pc = "atr" /\ ConstantSeries
    /\ Len(ind_df) = 3 /\ ind_period = 2 /\ ind_df[1].Close > 1
    /\ \A i \in 1..3 : atr_series[i] = 0

\* C8: seed and reported band.  The first bar is bullish with the final
\* bands equal to the basic bands, and at every bar the reported value is
\* the final lower band when bullish and the final upper band when bearish.
C8_SeedAndBand ==
    Computed =>
      /\ st_table[1].ST_bool
      /\ st_table[1].final_upperband = basic_upperband(ind_df, atr_series, 1)
      /\ st_table[1].final_lowerband = basic_lowerband(ind_df, atr_series, 1)
      /\ \A i \in 1..Len(st_table) :
           st_table[i].ST_value = (IF st_table[i].ST_bool
                                   THEN st_table[i].final_lowerband
                                   ELSE st_table[i].final_upperband)

\* A bearish bar whose two final bands differ, after a seed bar with a
\* range.
C8_Witness ==
    /\ Computed /\ Len(st_table) >= 2
    /\ ind_df[1].High > ind_df[1].Low
    /\ ~st_table[2].ST_bool
    /\ st_table[2].final_upperband # st_table[2].final_lowerband
    /\ st_table[2].ST_value = st_table[2].final_upperband

\* ================================================ claims on analyze_all
\* The report analyze_all has just returned, with the downloads it was made
\* from: every returned report is in this place once, before main prints it.
Returned ==
    IF pc = "output" THEN {[data |-> market, summary |-> report]} ELSE {}
\* The report the previous run printed.
Previous ==
    IF prev_run.status = "done"
    THEN {[data |-> prev_run.data, summary |-> prev_run.summary]} ELSE {}

Usable(d) == ~d.raised /\ d.rows # <<>>
\* The Supertrend states of every download that is a series: of its rows
\* put in date order.
States ==
    [d \in {x \in Feed \cup BenchmarkFeed : Usable(x)} |->
        Entry(supertrend(sort_index(d.rows), SUPER_PERIOD))]

Failed(r, t) == ~Usable(r.data[t])
FailureOf(r, t) ==
    IF r.data[t].raised THEN r.data[t].msg ELSE "No data for ticker: " \o t
Section(r, t) ==
    IF t \in Range(equity_list) THEN r.summary.etfs ELSE r.summary.gold_silver
EntriesOf(r, t) ==
    {i \in 1..Len(r.summary.action_summary) :
        /\ "ticker" \in DOMAIN r.summary.action_summary[i]
        /\ r.summary.action_summary[i].ticker = t}
TheEntry(r, t) == r.summary.action_summary[CHOOSE i \in EntriesOf(r, t) : TRUE]
BenchmarkGreen(r) == States[r.data[NIFTY_TICKER]].st_is_green

\* C1: a data failure is fatal only for the benchmark.  A run whose
\* benchmark fetch fails ends with exit status 2 and prints no report, and
\* no other failure ends a run that way; in every returned report each
\* listed ticker has its entry, a failed one has the error entry and exactly
\* one action entry, ERROR with the message, and the others are processed.
C1_OnlyBenchmarkFatal ==
    /\ (now > 0 /\ ~Usable(market[NIFTY_TICKER])) =>
          /\ pc = "idle" /\ report = NoReport /\ exit_code = 2
          /\ prev_run.status = "aborted"
    /\ prev_run.status = "aborted" =>
          /\ ~Usable(prev_run.data[NIFTY_TICKER])
          /\ "summary" \notin DOMAIN prev_run
          /\ prev_run.stderr = "ERROR during analysis: Failed to fetch NIFTY data: "
                                   \o FailureOf(prev_run, NIFTY_TICKER)
    /\ (exit_code = 2) = (prev_run.status = "aborted")
    /\ \A r \in Returned :
          /\ Usable(r.data[NIFTY_TICKER])
          /\ DOMAIN r.summary.etfs = Range(equity_list)
          /\ DOMAIN r.summary.gold_silver = Range(gold_silver_list)
          /\ \A t \in ListedTickers :
                /\ Cardinality(EntriesOf(r, t)) = 1
                /\ Failed(r, t) =>
                      /\ Section(r, t)[t] = [error |-> FailureOf(r, t)]
                      /\ TheEntry(r, t).action = "ERROR"
                      /\ TheEntry(r, t).reason = FailureOf(r, t)
                /\ ~Failed(r, t) =>
                      /\ "error" \notin DOMAIN Section(r, t)[t]
                      /\ TheEntry(r, t).action # "ERROR"

\* A returned report in which the first equity ticker got an empty frame,
\* the first gold ticker's download raised an exception without a message,
\* and the tickers after them did not fail, after a run that an exception
\* without a message in the benchmark's download ended.
C1_Witness ==
    /\ pc = "output" /\ prev_run.status = "aborted" /\ exit_code = 2
    /\ prev_run.data[NIFTY_TICKER] = Raises("")
    /\ prev_run.stderr = "ERROR during analysis: Failed to fetch NIFTY data: "
    /\ Len(equity_list) >= 2
    /\ market[equity_list[1]] = Delivers(<<>>) /\ Usable(market[equity_list[2]])
    /\ market[gold_silver_list[1]] = Raises("") /\ Usable(market[gold_silver_list[2]])
    /\ report.etfs[equity_list[1]] = [error |-> "No data for ticker: NIFTYBEES.NS"]
    /\ report.gold_silver[gold_silver_list[1]] = [error |-> ""]
    /\ TheEntry([data |-> market, summary |-> report], gold_silver_list[1]).reason = ""
    /\ "st_is_green" \in DOMAIN report.etfs[equity_list[2]]

\* The report under construction or just returned, for the equity tickers
\* processed so far.
Reports ==
    IF pc \in {"equity", "gold", "liquid", "output"}
    THEN {[data |-> market, summary |-> report]} ELSE {}

\* C2: every equity ETF processed without error gets exactly one action,
\* fixed by the benchmark's state and the ETF's latest and previous states:
\* SELL when the benchmark is red; with the benchmark green, BUY exactly when
\* the ETF is green and was red, SELL exactly when it is red and was green,
\* HOLD otherwise.
C2_EquityAction ==
    \A r \in Reports :
      \A t \in DOMAIN r.summary.etfs :
        LET e == r.summary.etfs[t]
            act == TheEntry(r, t).action
            green == BenchmarkGreen(r)
        IN "error" \notin DOMAIN e =>
             /\ e = States[r.data[t]]
             /\ Cardinality(EntriesOf(r, t)) = 1
             /\ act \in {"BUY", "SELL", "HOLD"}
             /\ ~green => act = "SELL"
             /\ green =>
                   /\ act = "BUY" <=> (e.st_is_green /\ ~e.st_prev_green)
                   /\ act = "SELL" <=> (~e.st_is_green /\ e.st_prev_green)

\* An ETF that turned green: SELL in the run under a red benchmark, BUY in
\* the next run under a green one.
C2_Witness ==
    /\ pc = "output" /\ prev_run.status = "done"
    /\ \E t \in Range(equity_list) :
         /\ market[t] = Weekly(<<Flat(1), Flat(1), Flat(1)>>)
         /\ ~prev_run.summary.nifty.st_is_green
         /\ report.nifty.st_is_green
         /\ TheEntry([data |-> prev_run.data, summary |-> prev_run.summary], t).action = "SELL"
         /\ TheEntry([data |-> market, summary |-> report], t).action = "BUY"

\* C5, as the spec states it: two runs of analyze_all over the same data
\* return reports equal in every field.
C5_Determinism ==
    (pc = "output" /\ prev_run.status = "done" /\ prev_run.data = market) =>
        report = prev_run.summary

GoldEntries(r) == [k \in 1..Len(gold_silver_list) |-> TheEntry(r, gold_silver_list[k])]

\* C9: gold and silver are independent of the benchmark.  Each gold/silver
\* ticker's entry and action follow from its own series alone (BUY when
\* green after red, SELL when red after green, HOLD otherwise, ERROR on
\* failure), and two runs that differ only in the benchmark's state give
\* every gold/silver ticker the same entry and the same action.
C9_GoldIndependent ==
    /\ \A r \in Returned :
         \A t \in Range(gold_silver_list) :
           IF Failed(r, t)
           THEN TheEntry(r, t).action = "ERROR"
           ELSE LET is == States[r.data[t]].st_is_green
                    was == States[r.data[t]].st_prev_green
                IN /\ r.summary.gold_silver[t] = States[r.data[t]]
                   /\ TheEntry(r, t).action =
                        (IF is /\ ~was THEN "BUY"
                         ELSE IF ~is /\ was THEN "SELL"
                         ELSE "HOLD")
    /\ \A r1 \in Previous, r2 \in Returned :
         (\A t \in ListedTickers : r1.data[t] = r2.data[t]) =>
            /\ r1.summary.gold_silver = r2.summary.gold_silver
            /\ GoldEntries(r1) = GoldEntries(r2)

\* Two returned reports, one under a red and one under a green benchmark,
\* with a gold ticker that turned green and one that turned red.
C9_Witness ==
    /\ pc = "output" /\ prev_run.status = "done"
    /\ prev_run.summary.nifty.st_is_green # report.nifty.st_is_green
    /\ market[gold_silver_list[1]] = Weekly(<<Flat(1), Flat(1), Flat(1)>>)
    /\ market[gold_silver_list[2]] = Weekly(<<Flat(1), Flat(1)>>)
    /\ TheEntry([data |-> market, summary |-> report], gold_silver_list[1]).action = "BUY"
    /\ TheEntry([data |-> market, summary |-> report], gold_silver_list[2]).action = "SELL"

\* C10: shape of the returned action list.  A MARKET_RED note exactly when
\* the benchmark is red, and then first; then one entry per equity ticker in
\* input order; then one per gold/silver ticker in input order; last one
\* entry for the liquid ticker, PARK when the benchmark is red and STANDBY
\* when it is green.
C10_ActionListShape ==
    \A r \in Returned :
      LET a == r.summary.action_summary
          red == ~BenchmarkGreen(r)
          off == IF red THEN 1 ELSE 0
          ne == Len(equity_list)
          ng == Len(gold_silver_list)
      IN /\ Len(a) = off + ne + ng + 1
         /\ \A i \in 1..Len(a) : (a[i].action = "MARKET_RED") = (red /\ i = 1)
         /\ \A k \in 1..ne :
              /\ a[off + k].ticker = equity_list[k]
              /\ a[off + k].action \in {"BUY", "SELL", "HOLD", "ERROR"}
         /\ \A k \in 1..ng :
              /\ a[off + ne + k].ticker = gold_silver_list[k]
              /\ a[off + ne + k].action \in {"BUY", "SELL", "HOLD", "ERROR"}
         /\ a[Len(a)].ticker = LIQUID_TICKER
         /\ a[Len(a)].action = (IF red THEN "PARK" ELSE "STANDBY")

\* The list of a green run beside the list of a red run, each with a failed
\* ticker in it.
C10_Witness ==
    /\ pc = "output" /\ prev_run.status = "done"
    /\ prev_run.summary.nifty.st_is_green /\ ~report.nifty.st_is_green
    /\ Len(equity_list) >= 2
    /\ Len(report.action_summary) = Len(prev_run.summary.action_summary) + 1
    /\ report.action_summary[1].action = "MARKET_RED"
    /\ Last(report.action_summary).action = "PARK"
    /\ Last(prev_run.summary.action_summary).action = "STANDBY"
    /\ \E i \in 2..(Len(report.action_summary) - 1) :
         report.action_summary[i].action = "ERROR"

====
